---- MODULE Spec2Model ----
(***************************************************************************)
(* Period rollover and section streaks of the minimalist habit counters    *)
(* (src/src/App.tsx).                                                      *)
(*                                                                         *)
(* React state is modelled as it behaves: a handler reads the `items` of   *)
(* the last render (its closure) and queues updater functions; the next    *)
(* render applies the queued updaters in order and then runs the effects   *)
(* (persist, and the immediate rollover check of the timer effect when     *)
(* `rollover` got a new identity).  Updates queued by a discrete DOM event *)
(* (click, submit) are rendered as soon as that handler returns, together  *)
(* with what was queued before; updates queued by the timer, `focus` and   *)
(* `visibilitychange` listeners and by effects wait for a scheduled        *)
(* render, so further listeners and handlers can run before it.            *)
(*                                                                         *)
(* A Date is modelled by its local calendar day, counted in days since     *)
(* 1970-01-01; times are counted in minutes; the host's time zone decides  *)
(* the length of a local day.  localStorage is modelled by the text stored *)
(* under each of the four keys the app reads or writes.                    *)
(*                                                                         *)
(* Specifications: Spec (the app from an empty storage), LiveSpec (Spec    *)
(* with a fair timer and fair renders), ClockSpec (a host whose clock is   *)
(* also set back), StorageSpec (the page opened and reloaded over stored   *)
(* data), KeySpec (the period keys over the year, in every zone).          *)
(***************************************************************************)
EXTENDS Integers, Sequences, FiniteSets, TLC

----------------------------------------------------------------------------
(* Bounds *)

MaxItems == 2      \* counters alive at once
MaxDay == 2        \* the clock ranges over BaseDay .. BaseDay + MaxDay
MaxInput == 2      \* largest number typed into a prompt or a form field
MaxStreak == 1     \* renders are explored while the streaks sum to at most this
MaxPending == 2    \* rollover checks queued before a render
MaxKeyDays == 310  \* the days on which the period keys are compared
MaxGap == 14       \* largest distance of two days whose keys are compared

----------------------------------------------------------------------------
(* Types *)

PERIODS == <<"daily", "weekly", "monthly">>

Period == {PERIODS[i] : i \in 1..Len(PERIODS)}

\* Number(text) of a text that is not a number (a value apart from the
\* numbers that can be typed)
NaN == -1000

\* what Number(...) yields for the text the user typed (0 is left out: the
\* handlers read every number through `|| default`, which takes 0 as NaN)
NumInputs == {NaN, -1} \cup (1..MaxInput)

\* Number("Infinity"), Number("1e999"): larger than every other number
Infinity == 1000000

\* what Number(val) yields for the text typed into a prompt()
PromptInputs == NumInputs \cup {Infinity}

\* what the user typed into a title field
Titles == {""}

Max(a, b) == IF a >= b THEN a ELSE b

Min(a, b) == IF a <= b THEN a ELSE b

\* JavaScript `x || d` on a number
OrElse(x, d) == IF x = NaN \/ x = 0 THEN d ELSE x

----------------------------------------------------------------------------
(* Date helpers *)

MinPerDay == 1440

\* The host's calendar (what the Date getters and the Date constructor
\* compute), by the usual era arithmetic on the proleptic Gregorian calendar.
DayOfEra(yoe, doy) == yoe * 365 + yoe \div 4 - yoe \div 100 + doy

DaysOfShifted(yy, mp, d) ==
    (yy \div 400) * 146097
       + DayOfEra(yy % 400, (153 * mp + 2) \div 5 + d - 1) - 719468

\* new Date(y, m - 1, d), m = 1..12
DaysFromCivil(y, m, d) ==
    DaysOfShifted(IF m <= 2 THEN y - 1 ELSE y, IF m > 2 THEN m - 3 ELSE m + 9, d)

CivilOfMonth(y, m, d) ==
    [year |-> IF m <= 2 THEN y + 1 ELSE y, month |-> m, date |-> d]

CivilOfMp(y, doy, mp) ==
    CivilOfMonth(y, IF mp < 10 THEN mp + 3 ELSE mp - 9, doy - (153 * mp + 2) \div 5 + 1)

CivilOfDoy(y, doy) == CivilOfMp(y, doy, (5 * doy + 2) \div 153)

CivilOfYoe(era, doe, yoe) ==
    CivilOfDoy(yoe + era * 400, doe - (365 * yoe + yoe \div 4 - yoe \div 100))

CivilOfDoe(era, doe) ==
    CivilOfYoe(era, doe,
               (doe - doe \div 1460 + doe \div 36524 - doe \div 146096) \div 365)

CivilFromDays(z) ==
    CivilOfDoe((z + 719468) \div 146097, (z + 719468) % 146097)

getFullYear(d) == CivilFromDays(d).year

\* 0 = January
getMonth(d) == CivilFromDays(d).month - 1

getDate(d) == CivilFromDays(d).date

\* Sun=0..Sat=6
getDay(d) == (d + 4) % 7

\* The host's time zone: one whose clock offset never changes; one of the
\* northern hemisphere with daylight saving time from Sun 2026-03-29 (a local
\* day of 23 hours) to Sun 2026-10-25 (25 hours); one of the southern
\* hemisphere with daylight saving time until Sun 2026-04-05 (25 hours) and
\* again from Sun 2026-10-04 (23 hours).
Zones == {"fixed", "north", "south"}

DstNorth == [first |-> DaysFromCivil(2026, 3, 29), last |-> DaysFromCivil(2026, 10, 25)]

DstSouth == [last |-> DaysFromCivil(2026, 4, 5), first |-> DaysFromCivil(2026, 10, 4)]

\* minutes the local clock is ahead of the zone's standard time at local
\* midnight of day d
DstOffset(z, d) ==
    CASE z = "fixed" -> 0
      [] z = "north" -> IF DstNorth.first < d /\ d <= DstNorth.last THEN 60 ELSE 0
      [] z = "south" -> IF DstSouth.last < d /\ d <= DstSouth.first THEN 0 ELSE 60

\* minutes between the epoch and local midnight of day d on a host in zone z
\* (up to the zone's standard offset, which cancels in every difference)
getTime(z, d) == d * MinPerDay - DstOffset(z, d)

pad(n) == IF n < 10 THEN "0" \o ToString(n) ELSE ToString(n)

getISODate(d) ==
    ToString(getFullYear(d)) \o "-" \o pad(getMonth(d) + 1) \o "-" \o pad(getDate(d))

getISOWeek(z, d) ==
    LET day == IF getDay(d) = 0 THEN 7 ELSE getDay(d)
        date == d + (4 - day)
        yearStart == DaysFromCivil(getFullYear(date), 1, 1)
        days == (getTime(z, date) - getTime(z, yearStart)) \div MinPerDay + 1
        weekNo == (days + 6) \div 7
    IN ToString(getFullYear(date)) \o "-W" \o ToString(weekNo)

getMonthKey(d) == ToString(getFullYear(d)) \o "-" \o pad(getMonth(d) + 1)

periodKey(z, period, d) ==
    CASE period = "daily" -> getISODate(d)
      [] period = "weekly" -> getISOWeek(z, d)
      [] period = "monthly" -> getMonthKey(d)

\* the clock values explored: Sun 2026-05-31, Mon 06-01 (a new day, ISO week
\* and month), Tue 06-02 (a new day only), ...
BaseDay == DaysFromCivil(2026, 5, 31)

Days == BaseDay .. (BaseDay + MaxDay)

\* periodKey on the explored days, computed once
KeyTable ==
    [z \in Zones |-> [p \in Period |-> [d \in Days |-> periodKey(z, p, d)]]]

----------------------------------------------------------------------------
(* State *)

VARIABLES
    items,            \* useState<Item[]>: the items of the last render
    sectionStreaks,   \* useState<SectionStreaks>: the streaks of the last render
    itemQ,            \* updaters passed to setItems, not yet rendered
    streakQ,          \* updaters passed to setSectionStreaks, not yet rendered
    now,              \* the host's clock: what new Date() returns
    mounted,          \* the component's effects have run once
    zone,             \* the host's time zone
    storage           \* localStorage: the text stored under each key

vars == <<items, sectionStreaks, itemQ, streakQ, now, mounted, zone, storage>>

\* periodKey(period, d) on this host
keyAt(period, d) == KeyTable[zone][period][d]

Ids(its) == {its[i].id : i \in 1..Len(its)}

ZeroStreaks ==
    [daily |-> 0, weekly |-> 0, monthly |-> 0,
     bestDaily |-> 0, bestWeekly |-> 0, bestMonthly |-> 0]

----------------------------------------------------------------------------
(* Storage *)

LS_KEY == "mhc:v3"

LS_STREAKS_KEY == "mhc:section-streaks:v1"

StorageKeys == {LS_KEY, "mhc:v2", "mhc:v1", LS_STREAKS_KEY}

\* The text stored under a key, by what JSON.parse makes of it:
\*   "absent"    no value (getItem returns null)
\*   "empty"     the empty text
\*   "garbage"   a text JSON.parse throws on
\*   "notArray"  a JSON text of a value without the members read (null)
\*   "json"      a JSON text; doc is the value it denotes: the elements of
\*               an array, or the one object of a text that holds an object
Text(kind, doc) == [kind |-> kind, doc |-> doc]

Absent == Text("absent", <<>>)

\* the JSON value null
JsonNull == -2000

\* the members that hold numbers (the others hold texts)
NumericFields == {"count", "target", "streak", "bestStreak"} \cup DOMAIN ZeroStreaks

\* JSON.stringify of a number: a number that is not finite is written null
JsonNumber(n) == IF n = Infinity \/ n = NaN THEN JsonNull ELSE n

\* JSON.stringify(items)
StringifyItems(its) ==
    Text("json",
         [i \in 1..Len(its) |->
            [f \in DOMAIN its[i] |->
               IF f \in NumericFields THEN JsonNumber(its[i][f]) ELSE its[i][f]]])

\* JSON.stringify(ss)
StringifyStreaks(ss) == Text("json", <<[f \in DOMAIN ss |-> JsonNumber(ss[f])]>>)

\* safeGet(k) is truthy
Truthy(raw) == raw.kind \notin {"absent", "empty"}

\* JSON.parse(raw) returns, and the members read from the value exist
Parses(raw) == raw.kind = "json"

\* it.f is neither undefined nor null
Has(it, f) == f \in DOMAIN it /\ (f \in NumericFields => it[f] # JsonNull)

\* Number(it.f)
NumberOf(it, f) ==
    IF f \notin DOMAIN it THEN NaN
    ELSE IF it[f] = JsonNull THEN 0 ELSE it[f]

\* it.f ?? d
Coalesce(it, f, d) == IF Has(it, f) THEN it[f] ELSE d

\* { ...it, f1: v1, ... }
Spread(it, over) ==
    [f \in DOMAIN it \cup DOMAIN over |-> IF f \in DOMAIN over THEN over[f] ELSE it[f]]

\* the current-version branch of loadItems, for one stored item
LoadV3(it, z, d) ==
    Spread(it,
           [periodKey |-> Coalesce(it, "periodKey", KeyTable[z][it.period][d]),
            count |-> Max(0, OrElse(NumberOf(it, "count"), 0)),
            target |-> Max(1, OrElse(NumberOf(it, "target"), 1)),
            streak |-> IF Has(it, "streak") THEN it.streak ELSE 0,
            bestStreak |-> IF Has(it, "bestStreak") THEN it.bestStreak ELSE 0])

\* the v2 -> v3 branch of loadItems, for one stored item
LoadV2(it, z, d) ==
    [id |-> it.id,
     title |-> it.title,
     period |-> it.period,
     count |-> Max(0, OrElse(NumberOf(it, "count"), 0)),
     target |-> 1,
     periodKey |-> Coalesce(it, "periodKey", KeyTable[z][it.period][d]),
     streak |-> Coalesce(it, "streak", 0),
     bestStreak |-> Coalesce(it, "bestStreak", 0)]

\* the v1 branch of loadItems, for one stored item
LoadV1(it, z, d) ==
    [id |-> it.id,
     title |-> it.title,
     period |-> it.period,
     count |-> Max(0, OrElse(NumberOf(it, "count"), 0)),
     target |-> 1,
     periodKey |-> Coalesce(it, "periodKey", KeyTable[z][it.period][d]),
     streak |-> 0,
     bestStreak |-> 0]

\* loadItems() with the storage st, on a host in zone z on day d; an
\* exception thrown by JSON.parse or by .map is caught: the result is []
loadItems(st, z, d) ==
    IF Truthy(st[LS_KEY])
    THEN IF Parses(st[LS_KEY])
         THEN [i \in 1..Len(st[LS_KEY].doc) |-> LoadV3(st[LS_KEY].doc[i], z, d)]
         ELSE <<>>
    ELSE IF Truthy(st["mhc:v2"])
    THEN IF Parses(st["mhc:v2"])
         THEN [i \in 1..Len(st["mhc:v2"].doc) |-> LoadV2(st["mhc:v2"].doc[i], z, d)]
         ELSE <<>>
    ELSE IF ~Truthy(st["mhc:v1"]) THEN <<>>
    ELSE IF Parses(st["mhc:v1"])
         THEN [i \in 1..Len(st["mhc:v1"].doc) |-> LoadV1(st["mhc:v1"].doc[i], z, d)]
         ELSE <<>>

\* loadSectionStreaks() with the storage st
loadSectionStreaks(st) ==
    IF ~Truthy(st[LS_STREAKS_KEY]) THEN ZeroStreaks
    ELSE IF Parses(st[LS_STREAKS_KEY])
         THEN [f \in DOMAIN ZeroStreaks |-> Coalesce(st[LS_STREAKS_KEY].doc[1], f, 0)]
         ELSE ZeroStreaks

\* a save that removes the records of the prior versions
PersistDropOld(st, its, ss) ==
    [k \in StorageKeys |->
        CASE k = LS_KEY -> StringifyItems(its)
          [] k = LS_STREAKS_KEY -> StringifyStreaks(ss)
          [] OTHER -> Absent]

\* saveItems(its) and saveSectionStreaks(ss): the two persist effects
Persist(st, its, ss) ==
    [st EXCEPT ![LS_KEY] = StringifyItems(its),
               ![LS_STREAKS_KEY] = StringifyStreaks(ss)]

\* nothing stored
NoStorage == [k \in StorageKeys |-> Absent]

----------------------------------------------------------------------------
(* Streaks and rollover *)

\* the field of SectionStreaks holding the current / best streak of a period
Cur(p) == p

Best(p) ==
    CASE p = "daily" -> "bestDaily"
      [] p = "weekly" -> "bestWeekly"
      [] p = "monthly" -> "bestMonthly"

----------------------------------------------------------------------------
(* Rollover logic *)

\* boundary detection by order: a counter crosses a boundary only when its
\* stored key is the key of an earlier day
boundaryForwardOnly(its, period, d) ==
    \E i \in 1..Len(its) :
        /\ its[i].period = period
        /\ keyAt(period, d) # its[i].periodKey
        /\ \E e \in Days : e < d /\ keyAt(period, e) = its[i].periodKey

\* boundary detection that does not look at the counter's period
boundaryAnyPeriod(its, period, d) ==
    \E i \in 1..Len(its) : keyAt(its[i].period, d) # its[i].periodKey

\* items.some((i) => i.period === period && periodKey(period, now) !== i.periodKey)
boundary(its, period, d) ==
    \E i \in 1..Len(its) :
        its[i].period = period /\ keyAt(period, d) # its[i].periodKey

\* allDone with a strict comparison: a group filled exactly to its targets
\* does not count as done
allDoneStrict(its, period) ==
    LET list == SelectSeq(its, LAMBDA i : i.period = period)
    IN IF Len(list) = 0 THEN FALSE
       ELSE \A k \in 1..Len(list) : list[k].count > Max(1, list[k].target)

\* allDone over the counters of the period that crossed the boundary only:
\* counters that have the present key already do not count
allDoneStaleOnly(its, period) ==
    LET list == SelectSeq(its, LAMBDA i : i.period = period /\ i.periodKey # keyAt(period, now))
    IN IF Len(list) = 0 THEN FALSE
       ELSE \A k \in 1..Len(list) : list[k].count >= Max(1, list[k].target)

allDone(its, period) ==
    LET list == SelectSeq(its, LAMBDA i : i.period = period)
    IN IF Len(list) = 0 THEN FALSE
       ELSE \A k \in 1..Len(list) : list[k].count >= Max(1, list[k].target)

\* a streak updater that signals a boundary found in one period to all three
StreakUpdaterAnyPeriod(its, d) ==
    LET any == \E p \in Period : boundary(its, p, d)
    IN [boundaryDaily |-> any,
        boundaryWeekly |-> any,
        boundaryMonthly |-> any,
        endedDailyDone |-> any /\ allDone(its, "daily"),
        endedWeeklyDone |-> any /\ allDone(its, "weekly"),
        endedMonthlyDone |-> any /\ allDone(its, "monthly")]

\* a streak updater that takes every ended period as done
StreakUpdaterAllDone(its, d) ==
    [boundaryDaily |-> boundary(its, "daily", d),
     boundaryWeekly |-> boundary(its, "weekly", d),
     boundaryMonthly |-> boundary(its, "monthly", d),
     endedDailyDone |-> boundary(its, "daily", d),
     endedWeeklyDone |-> boundary(its, "weekly", d),
     endedMonthlyDone |-> boundary(its, "monthly", d)]

\* the values the updater passed to setSectionStreaks closes over
StreakUpdater(its, d) ==
    [boundaryDaily |-> boundary(its, "daily", d),
     boundaryWeekly |-> boundary(its, "weekly", d),
     boundaryMonthly |-> boundary(its, "monthly", d),
     endedDailyDone |-> boundary(its, "daily", d) /\ allDone(its, "daily"),
     endedWeeklyDone |-> boundary(its, "weekly", d) /\ allDone(its, "weekly"),
     endedMonthlyDone |-> boundary(its, "monthly", d) /\ allDone(its, "monthly")]

\* a streak updater that leaves the best streaks as they are
ApplyStreakUpdaterKeepBest(u, s) ==
    [s EXCEPT
        !.daily = IF u.boundaryDaily
                  THEN (IF u.endedDailyDone THEN s.daily + 1 ELSE 0)
                  ELSE s.daily,
        !.weekly = IF u.boundaryWeekly
                   THEN (IF u.endedWeeklyDone THEN s.weekly + 1 ELSE 0)
                   ELSE s.weekly,
        !.monthly = IF u.boundaryMonthly
                    THEN (IF u.endedMonthlyDone THEN s.monthly + 1 ELSE 0)
                    ELSE s.monthly]

\* a streak updater that stores the current streak as the best one
ApplyStreakUpdaterBestIsCurrent(u, s) ==
    LET daily == IF u.boundaryDaily
                 THEN (IF u.endedDailyDone THEN s.daily + 1 ELSE 0)
                 ELSE s.daily
        weekly == IF u.boundaryWeekly
                  THEN (IF u.endedWeeklyDone THEN s.weekly + 1 ELSE 0)
                  ELSE s.weekly
        monthly == IF u.boundaryMonthly
                   THEN (IF u.endedMonthlyDone THEN s.monthly + 1 ELSE 0)
                   ELSE s.monthly
    IN [daily |-> daily, weekly |-> weekly, monthly |-> monthly,
        bestDaily |-> IF u.boundaryDaily THEN daily ELSE s.bestDaily,
        bestWeekly |-> IF u.boundaryWeekly THEN weekly ELSE s.bestWeekly,
        bestMonthly |-> IF u.boundaryMonthly THEN monthly ELSE s.bestMonthly]

\* the updater passed to setSectionStreaks, applied to s
ApplyStreakUpdater(u, s) ==
    LET daily == IF u.boundaryDaily
                 THEN (IF u.endedDailyDone THEN s.daily + 1 ELSE 0)
                 ELSE s.daily
        weekly == IF u.boundaryWeekly
                  THEN (IF u.endedWeeklyDone THEN s.weekly + 1 ELSE 0)
                  ELSE s.weekly
        monthly == IF u.boundaryMonthly
                   THEN (IF u.endedMonthlyDone THEN s.monthly + 1 ELSE 0)
                   ELSE s.monthly
    IN [daily |-> daily, weekly |-> weekly, monthly |-> monthly,
        bestDaily |-> IF u.boundaryDaily THEN Max(s.bestDaily, daily) ELSE s.bestDaily,
        bestWeekly |-> IF u.boundaryWeekly THEN Max(s.bestWeekly, weekly) ELSE s.bestWeekly,
        bestMonthly |-> IF u.boundaryMonthly THEN Max(s.bestMonthly, monthly) ELSE s.bestMonthly]

\* a reset that stores the new period key and keeps the progress
ResetItemsKeepCount(prev, d) ==
    [i \in 1..Len(prev) |->
        LET it == prev[i]
            currentKey == keyAt(it.period, d)
        IN IF currentKey # it.periodKey
           THEN [it EXCEPT !.periodKey = currentKey]
           ELSE it]

\* a reset of every counter of a period in which some counter is stale
ResetItemsWholePeriod(prev, d) ==
    [i \in 1..Len(prev) |->
        LET it == prev[i]
            currentKey == keyAt(it.period, d)
        IN IF \E j \in 1..Len(prev) :
                 prev[j].period = it.period /\ currentKey # prev[j].periodKey
           THEN [it EXCEPT !.periodKey = currentKey, !.count = 0]
           ELSE it]

\* a reset that zeroes the progress and keeps the stored period key
ResetItemsKeepKey(prev, d) ==
    [i \in 1..Len(prev) |->
        LET it == prev[i]
            currentKey == keyAt(it.period, d)
        IN IF currentKey # it.periodKey
           THEN [it EXCEPT !.count = 0]
           ELSE it]

\* prev.map(...) of the updater passed to setItems by rollover(d)
ResetItems(prev, d) ==
    [i \in 1..Len(prev) |->
        LET it == prev[i]
            currentKey == keyAt(it.period, d)
        IN IF currentKey # it.periodKey
           THEN [it EXCEPT !.periodKey = currentKey, !.count = 0]
           ELSE it]

\* { ...i, ...patch }
Merge(it, patch) ==
    [f \in DOMAIN it |-> IF f \in DOMAIN patch THEN patch[f] ELSE it[f]]

\* the queued updaters with an "add" that puts the new counter last
ApplyItemUpdaterAddLast(u, prev) ==
    CASE u.op = "rollover" -> ResetItems(prev, u.now)
      [] u.op = "add" -> prev \o <<u.it>>
      [] u.op = "remove" -> SelectSeq(prev, LAMBDA i : i.id # u.id)
      [] u.op = "update" ->
            [i \in 1..Len(prev) |->
                IF prev[i].id = u.id THEN Merge(prev[i], u.patch) ELSE prev[i]]
      [] u.op = "newTarget" ->
            IF Len(prev) = 0 THEN prev
            ELSE <<[prev[1] EXCEPT !.target = u.tgt,
                                   !.count = Min(prev[1].count, u.tgt)]>>
                 \o Tail(prev)

\* one queued setItems updater applied to prev
ApplyItemUpdater(u, prev) ==
    CASE u.op = "rollover" -> ResetItems(prev, u.now)
      [] u.op = "add" -> <<u.it>> \o prev
      [] u.op = "remove" -> SelectSeq(prev, LAMBDA i : i.id # u.id)
      [] u.op = "update" ->
            [i \in 1..Len(prev) |->
                IF prev[i].id = u.id THEN Merge(prev[i], u.patch) ELSE prev[i]]
      [] u.op = "newTarget" ->
            IF Len(prev) = 0 THEN prev
            ELSE <<[prev[1] EXCEPT !.target = u.tgt,
                                   !.count = Min(prev[1].count, u.tgt)]>>
                 \o Tail(prev)

RECURSIVE FlushItems(_, _)
\* React applies the queued updaters in the order they were queued
FlushItems(q, prev) ==
    IF q = <<>> THEN prev
    ELSE FlushItems(Tail(q), ApplyItemUpdater(Head(q), prev))

RECURSIVE FlushStreaks(_, _)
FlushStreaks(q, s) ==
    IF q = <<>> THEN s
    ELSE FlushStreaks(Tail(q), ApplyStreakUpdater(Head(q), s))

\* const rollover = useCallback((now) => {...}, [items, ...]): what a call
\* with closure `its` adds to the two update queues
RolloverStreakQ(its, d) ==
    IF ~boundary(its, "daily", d) /\ ~boundary(its, "weekly", d)
          /\ ~boundary(its, "monthly", d)
    THEN <<>>
    ELSE <<StreakUpdater(its, d)>>

RolloverItemQ(its, d) ==
    IF ~boundary(its, "daily", d) /\ ~boundary(its, "weekly", d)
          /\ ~boundary(its, "monthly", d)
    THEN <<>>
    ELSE <<[op |-> "rollover", now |-> d]>>

\* the streaks explored
WithinStreakBound(s) ==
    /\ s.bestDaily + s.bestWeekly + s.bestMonthly <= MaxStreak
    /\ s.daily + s.weekly + s.monthly <= MaxStreak

rollover(d) ==
    /\ itemQ' = itemQ \o RolloverItemQ(items, d)
    /\ streakQ' = streakQ \o RolloverStreakQ(items, d)
    /\ UNCHANGED <<items, sectionStreaks, now, mounted, zone, storage>>

----------------------------------------------------------------------------
(* Initial state: nothing stored yet *)

Init ==
    /\ items = <<>>
    /\ sectionStreaks = ZeroStreaks
    /\ itemQ = <<>>
    /\ streakQ = <<>>
    /\ now = BaseDay
    /\ mounted = FALSE
    /\ zone = "fixed"
    /\ storage = NoStorage

----------------------------------------------------------------------------
(* Effects and rollover triggers *)

\* first commit: the effects run: the persist effects save what was loaded
\* and the timer effect calls check() at once
Mount ==
    /\ ~mounted
    /\ storage' = Persist(storage, items, sectionStreaks)
    /\ itemQ' = RolloverItemQ(items, now)
    /\ streakQ' = RolloverStreakQ(items, now)
    /\ mounted' = TRUE
    /\ UNCHANGED <<items, sectionStreaks, now, zone>>

\* setInterval(check, 60 * 60 * 1000)
TimerCheck ==
    /\ mounted
    /\ Len(streakQ) < MaxPending
    /\ rollover(now)

\* document.addEventListener("visibilitychange", check)
VisibilityCheck ==
    /\ mounted
    /\ Len(streakQ) < MaxPending
    /\ rollover(now)

\* window.addEventListener("focus", check)
FocusCheck ==
    /\ mounted
    /\ Len(streakQ) < MaxPending
    /\ rollover(now)

\* React renders with the updaters iq and sq queued: they are applied in
\* order; the persist effects save the result; `rollover` gets a new
\* identity when `items` does, and the timer effect then runs check() again,
\* with the new items
Commit(iq, sq) ==
    /\ items' = FlushItems(iq, items)
    /\ sectionStreaks' = FlushStreaks(sq, sectionStreaks)
    /\ itemQ' = IF iq # <<>> THEN RolloverItemQ(items', now) ELSE <<>>
    /\ streakQ' = IF iq # <<>> THEN RolloverStreakQ(items', now) ELSE <<>>
    /\ storage' = Persist(storage, items', sectionStreaks')
    /\ WithinStreakBound(sectionStreaks')
    /\ UNCHANGED <<now, mounted, zone>>

\* the scheduled render of what the listeners and effects queued
Render ==
    /\ mounted
    /\ itemQ # <<>> \/ streakQ # <<>>
    /\ Commit(itemQ, streakQ)

\* the host's clock reaches a later day (also while the app sleeps in the
\* background); a render scheduled before that has run by then
ClockChange ==
    /\ mounted
    /\ itemQ = <<>> /\ streakQ = <<>>
    /\ \E d \in Days : d > now /\ now' = d
    /\ UNCHANGED <<items, sectionStreaks, itemQ, streakQ, mounted, zone, storage>>

----------------------------------------------------------------------------
(* User operations *)

\* crypto.randomUUID(): an id no counter has
makeId == CHOOSE n \in 1..MaxItems : n \notin Ids(items)

Find(id) == CHOOSE i \in 1..Len(items) : items[i].id = id

\* a setItems that also counts a completed day
setItemsAndStreak(us) ==
    Commit(itemQ \o us,
           streakQ \o <<[boundaryDaily |-> TRUE, boundaryWeekly |-> FALSE,
                         boundaryMonthly |-> FALSE, endedDailyDone |-> TRUE,
                         endedWeeklyDone |-> FALSE, endedMonthlyDone |-> FALSE]>>)

\* setItems(updater), ... called from a click or submit handler: React
\* renders when the handler returns
setItems(us) == Commit(itemQ \o us, streakQ)

updateItem(id, patch) == setItems(<<[op |-> "update", id |-> id, patch |-> patch]>>)

\* a submit that stores the daily key in a counter of any period
NewItemSubmitDailyKey(title, period, target) ==
    /\ mounted
    /\ Len(items) < MaxItems
    /\ LET tgt == Max(1, OrElse(target, 1))
           ttl == IF title = "" THEN "Untitled" ELSE title
           it == [id |-> makeId,
                  title |-> ttl,
                  period |-> period,
                  count |-> 0,
                  target |-> 1,
                  periodKey |-> keyAt("daily", now),
                  streak |-> 0,
                  bestStreak |-> 0]
       IN setItems(<<[op |-> "add", it |-> it], [op |-> "newTarget", tgt |-> tgt]>>)

\* NewItemModal onSubmit: addItem, then the target is set on the first item
NewItemSubmit(title, period, target) ==
    /\ mounted
    /\ Len(items) < MaxItems
    /\ LET tgt == Max(1, OrElse(target, 1))
           ttl == IF title = "" THEN "Untitled" ELSE title
           it == [id |-> makeId,
                  title |-> ttl,
                  period |-> period,
                  count |-> 0,
                  target |-> 1,
                  periodKey |-> keyAt(period, now),
                  streak |-> 0,
                  bestStreak |-> 0]
       IN setItems(<<[op |-> "add", it |-> it], [op |-> "newTarget", tgt |-> tgt]>>)

removeItem(id) ==
    /\ mounted
    /\ id \in Ids(items)
    /\ setItems(<<[op |-> "remove", id |-> id]>>)

\* increment without the clamp to the target
incrementNoClamp(id) ==
    /\ mounted
    /\ id \in Ids(items)
    /\ LET it == items[Find(id)]
           next == OrElse(it.count, 0) + 1
       IN updateItem(id, [count |-> next])

increment(id) ==
    /\ mounted
    /\ id \in Ids(items)
    /\ LET it == items[Find(id)]
           next == Min(OrElse(it.count, 0) + 1, Max(1, it.target))
       IN updateItem(id, [count |-> next])

decrement(id) ==
    /\ mounted
    /\ id \in Ids(items)
    /\ LET it == items[Find(id)]
           next == Max(0, OrElse(it.count, 0) - 1)
       IN updateItem(id, [count |-> next])

\* ItemCard "Set count..." with Number(val) = v
SetCount(id, v) ==
    /\ mounted
    /\ id \in Ids(items)
    /\ LET it == items[Find(id)]
           n == Max(0, OrElse(v, 0))
       IN updateItem(id, [count |-> Min(n, Max(1, it.target))])

\* a "Set target..." that leaves the progress as it is
SetTargetKeepCount(id, v) ==
    /\ mounted
    /\ id \in Ids(items)
    /\ LET t == Max(1, OrElse(v, 1))
       IN updateItem(id, [target |-> t])

\* ItemCard "Set target..." with Number(val) = v
SetTarget(id, v) ==
    /\ mounted
    /\ id \in Ids(items)
    /\ LET it == items[Find(id)]
           t == Max(1, OrElse(v, 1))
           newCount == Min(it.count, t)
       IN updateItem(id, [target |-> t, count |-> newCount])

\* an edit patch that keeps the stored period key when the period changes
EditPatchKeepKey(editingItem, title, period, target) ==
    LET tgt == Max(1, OrElse(target, OrElse(editingItem.target, 1)))
        newCount == Min(editingItem.count, tgt)
    IN [title |-> IF title = "" THEN "Untitled" ELSE title,
        period |-> period,
        count |-> newCount,
        target |-> tgt,
        periodKey |-> editingItem.periodKey]

\* the patch both EditItemModal handlers build from the form fields
EditPatch(editingItem, title, period, target) ==
    LET tgt == Max(1, OrElse(target, OrElse(editingItem.target, 1)))
        newCount == Min(editingItem.count, tgt)
    IN [title |-> IF title = "" THEN "Untitled" ELSE title,
        period |-> period,
        count |-> newCount,
        target |-> tgt,
        periodKey |-> IF period # editingItem.period
                      THEN keyAt(period, now)
                      ELSE editingItem.periodKey]

\* EditItemModal form onSubmit, and Save onClick, which repeats it
EditSubmit(id, title, period, target) ==
    /\ mounted
    /\ id \in Ids(items)
    /\ updateItem(id, EditPatch(items[Find(id)], title, period, target))

UserOp ==
    \/ \E t \in Titles, p \in Period, v \in NumInputs : NewItemSubmit(t, p, v)
    \/ \E id \in Ids(items) : removeItem(id)
    \/ \E id \in Ids(items) : increment(id)
    \/ \E id \in Ids(items) : decrement(id)
    \/ \E id \in Ids(items), v \in NumInputs : SetCount(id, v)
    \/ \E id \in Ids(items), v \in NumInputs : SetTarget(id, v)
    \/ \E id \in Ids(items), t \in Titles, p \in Period, v \in NumInputs :
          EditSubmit(id, t, p, v)

Next ==
    \/ Mount
    \/ TimerCheck
    \/ VisibilityCheck
    \/ FocusCheck
    \/ Render
    \/ ClockChange
    \/ UserOp

Spec == Init /\ [][Next]_vars

\* The running app: the interval timer keeps firing (setInterval) and React
\* performs every render it has scheduled.
LiveSpec == Spec /\ WF_vars(TimerCheck) /\ WF_vars(Render)

----------------------------------------------------------------------------
(* A host whose clock is set: new Date() may return an earlier day than    *)
(* before (the user or the time service sets the clock back, the host      *)
(* moves west across time zones)                                           *)

ClockSet ==
    /\ mounted
    /\ itemQ = <<>> /\ streakQ = <<>>
    /\ \E d \in Days : d # now /\ now' = d
    /\ UNCHANGED <<items, sectionStreaks, itemQ, streakQ, mounted, zone, storage>>

\* the counters are made, filled and deleted, and checked by the timer
ClockNext ==
    \/ Mount
    \/ TimerCheck
    \/ Render
    \/ ClockSet
    \/ \E t \in Titles, p \in Period, v \in NumInputs : NewItemSubmit(t, p, v)
    \/ \E id \in Ids(items) : increment(id)
    \/ \E id \in Ids(items) : removeItem(id)

ClockSpec == Init /\ [][ClockNext]_vars

----------------------------------------------------------------------------
(* Live header *)

\* a header that is done when some counter of the period is
sectionDoneSome(its, period) ==
    \E i \in 1..Len(its) :
        its[i].period = period /\ its[i].count >= Max(1, its[i].target)

\* hasDaily && items.filter(...).every(...): dailyDone, weeklyDone, monthlyDone
sectionDone(its, period) ==
    /\ \E i \in 1..Len(its) : its[i].period = period
    /\ \A i \in 1..Len(its) :
          its[i].period = period => its[i].count >= Max(1, its[i].target)

\* the streakDisplay passed to the Section of a period
streakDisplay(its, ss, period) ==
    ss[Cur(period)] + (IF sectionDone(its, period) THEN 1 ELSE 0)

----------------------------------------------------------------------------
(* Start-up from stored data: what the host's storage holds when the page  *)
(* is opened, the prompts, and the reload of the page                      *)

\* a counter as this version saves it
DocSaved ==
    [id |-> 1, title |-> "Untitled", period |-> "daily", count |-> 2,
     target |-> 2, periodKey |-> KeyTable["fixed"]["daily"][BaseDay],
     streak |-> 0, bestStreak |-> 0]

\* a current-version counter with members missing or out of range
DocBare ==
    [id |-> 1, title |-> "Untitled", period |-> "weekly", count |-> -1,
     target |-> 0]

\* a v2 counter: no target, item-level streaks
DocV2 ==
    [id |-> 1, title |-> "Untitled", period |-> "daily", count |-> 1,
     streak |-> 1, bestStreak |-> 1]

\* a v2 counter that was counted more than once in its period
DocV2Counted ==
    [id |-> 1, title |-> "Untitled", period |-> "weekly", count |-> MaxInput,
     streak |-> 0, bestStreak |-> 0]

\* a v1 counter: no target, no streaks
DocV1 == [id |-> 1, title |-> "Untitled", period |-> "monthly", count |-> 1]

Unreadable == {Text("garbage", <<>>), Text("notArray", <<>>)}

StoredV3 ==
    {Absent, Text("empty", <<>>)} \cup Unreadable
       \cup {Text("json", <<>>), Text("json", <<DocSaved>>), Text("json", <<DocBare>>)}

StoredV2 ==
    {Absent, Text("garbage", <<>>), Text("json", <<DocV2>>),
     Text("json", <<DocV2Counted>>)}

StoredV1 == {Absent, Text("garbage", <<>>), Text("json", <<DocV1>>)}

StoredStreaks ==
    {Absent, Text("empty", <<>>)} \cup Unreadable
       \cup {Text("json", <<[ZeroStreaks EXCEPT !.daily = 1, !.bestDaily = 1]>>),
             Text("json", <<[weekly |-> 0, bestWeekly |-> 1]>>)}

\* the page is opened: useState(() => loadItems()), useState(() =>
\* loadSectionStreaks())
InitStored ==
    /\ zone = "fixed"
    /\ now \in Days
    /\ \E v3 \in StoredV3, v2 \in StoredV2, v1 \in StoredV1, ss \in StoredStreaks :
          storage = [k \in StorageKeys |->
                       CASE k = LS_KEY -> v3
                         [] k = "mhc:v2" -> v2
                         [] k = "mhc:v1" -> v1
                         [] k = LS_STREAKS_KEY -> ss]
    /\ items = loadItems(storage, zone, now)
    /\ sectionStreaks = loadSectionStreaks(storage)
    /\ itemQ = <<>>
    /\ streakQ = <<>>
    /\ mounted = FALSE

\* the page is loaded again: the state is read from the storage, and what
\* was queued is lost
Reload ==
    /\ mounted
    /\ items' = loadItems(storage, zone, now)
    /\ sectionStreaks' = loadSectionStreaks(storage)
    /\ itemQ' = <<>>
    /\ streakQ' = <<>>
    /\ mounted' = FALSE
    /\ UNCHANGED <<now, zone, storage>>

\* "Set count..." and "Set target..." with any text typed into the prompt
PromptOp ==
    \/ \E id \in Ids(items), v \in PromptInputs : SetCount(id, v)
    \/ \E id \in Ids(items), v \in PromptInputs : SetTarget(id, v)

StoredNext == Mount \/ Render \/ PromptOp \/ Reload

StorageSpec == InitStored /\ [][StoredNext]_vars

----------------------------------------------------------------------------
(* Period keys over the year, in every zone *)

KeyFirst == DaysFromCivil(2026, 3, 16)

KeyDays == KeyFirst .. (KeyFirst + MaxKeyDays)

InitKeys ==
    /\ zone \in Zones
    /\ now \in KeyDays
    /\ items = <<>>
    /\ sectionStreaks = ZeroStreaks
    /\ itemQ = <<>>
    /\ streakQ = <<>>
    /\ mounted = FALSE
    /\ storage = NoStorage

\* the clock reaches a later day
ClockAdvance ==
    /\ \E d \in KeyDays : now < d /\ d <= now + MaxGap /\ now' = d
    /\ UNCHANGED <<items, sectionStreaks, itemQ, streakQ, mounted, zone, storage>>

KeySpec == InitKeys /\ [][ClockAdvance]_vars

----------------------------------------------------------------------------
(* Properties *)

Item(its, id) == its[CHOOSE i \in 1..Len(its) : its[i].id = id]

\* the counters of a period
Group(its, p) == {i \in 1..Len(its) : its[i].period = p}

\* a rollover check has queued its updaters and they are not rendered yet
Pending == streakQ # <<>>

\* the streaks before the i-th queued updater is applied
StreaksBefore(i) == FlushStreaks(SubSeq(streakQ, 1, i - 1), sectionStreaks)

\* the i-th queued updater changes the streak record of period p
Changes(i, p) ==
    LET b == StreaksBefore(i)
        a == ApplyStreakUpdater(streakQ[i], b)
    IN a[Cur(p)] # b[Cur(p)] \/ a[Best(p)] # b[Best(p)]

\* C1: exactly once per boundary crossing: while the clock stays in a period,
\* the streak record of a kind is changed by at most one rollover check.  The
\* clock keeps its value while checks are queued, so all queued checks ran in
\* the present period: at most one of them may change the record of a kind.
C1_ExactlyOnce ==
    \A p \in Period :
        Cardinality({i \in 1..Len(streakQ) : Changes(i, p)}) <= 1

\* C2: every counter has target >= 1 and 0 <= progress <= target, after any
\* sequence of create, increment, decrement, set count, set target, edit,
\* delete and rollover check.
C2_ProgressBound ==
    \A i \in 1..Len(items) :
        /\ items[i].target >= 1
        /\ 0 <= items[i].count
        /\ items[i].count <= items[i].target

\* a counter raised to a target above 1 and filled up to it
C2_Witness ==
    \E i \in 1..Len(items) :
        items[i].target = MaxInput /\ items[i].count = items[i].target

StreakOk(s) ==
    \A p \in Period : s[Best(p)] >= s[Cur(p)] /\ s[Cur(p)] >= 0

\* C3: from zeroed streak records, best >= current >= 0 holds for every
\* period in every reachable state, and whenever current changes the new
\* best is max(old best, new current).
C3_StreakInvariant ==
    [][/\ StreakOk(sectionStreaks)
       /\ StreakOk(sectionStreaks')
       /\ \A p \in Period :
             sectionStreaks'[Cur(p)] # sectionStreaks[Cur(p)]
                => sectionStreaks'[Best(p)]
                      = Max(sectionStreaks[Best(p)], sectionStreaks'[Cur(p)])]_vars

\* a streak that was broken after it had grown: best stays above current
C3_Witness ==
    \E p \in Period :
        sectionStreaks[Cur(p)] = 0 /\ sectionStreaks[Best(p)] >= 1

\* a step that renders what was queued
Flush == Render \/ UserOp

\* the group of period p is complete: not empty, every member at its target
Complete(its, p) ==
    /\ Group(its, p) # {}
    /\ \A i \in Group(its, p) : its[i].count >= its[i].target

\* C4: single-increment law: when the one queued rollover check found a
\* boundary for a kind whose group was complete, the render raises that
\* kind's current streak by exactly 1, however many periods the clock had
\* advanced past the counters' stored key.
C4_SingleIncrement ==
    [][\A p \in Period :
          (/\ Len(streakQ) = 1
           /\ boundary(items, p, now)
           /\ Complete(items, p)
           /\ Flush)
             => sectionStreaks'[Cur(p)] = sectionStreaks[Cur(p)] + 1]_vars

\* a check is queued for a complete daily group whose key is two days old
C4_Witness ==
    /\ Len(streakQ) = 1
    /\ now = BaseDay + 2
    /\ Complete(items, "daily")
    /\ \E i \in Group(items, "daily") : items[i].periodKey = keyAt("daily", BaseDay)

\* C5: broken streak: when a queued rollover check found a boundary for a
\* kind and some counter of that kind has progress < target, the render sets
\* the kind's current streak to 0 and keeps its best streak.
C5_BrokenStreak ==
    [][\A p \in Period :
          (/\ Pending
           /\ boundary(items, p, now)
           /\ \E i \in Group(items, p) : items[i].count < items[i].target)
             => \/ /\ sectionStreaks'[Cur(p)] = 0
                   /\ sectionStreaks'[Best(p)] = sectionStreaks[Best(p)]
                \/ ~Flush]_vars

\* a check is queued for an incomplete group whose streak stands at 1
C5_Witness ==
    \E p \in Period :
        /\ Pending
        /\ boundary(items, p, now)
        /\ \E i \in Group(items, p) : items[i].count < items[i].target
        /\ sectionStreaks[Cur(p)] = 1

\* C6: empty-group law: a step taken while a period has no counters leaves
\* that period's current and best streak unchanged.
C6_EmptyGroup ==
    [][\A p \in Period :
          Group(items, p) = {}
             => /\ sectionStreaks'[Cur(p)] = sectionStreaks[Cur(p)]
                /\ sectionStreaks'[Best(p)] = sectionStreaks[Best(p)]]_vars

\* a period without counters holds a streak while a check for another period
\* is queued
C6_Witness ==
    \E p \in Period :
        /\ Group(items, p) = {}
        /\ sectionStreaks[Best(p)] >= 1
        /\ Pending

\* C7: idempotence: when the one queued rollover check is rendered, the check
\* that runs next with the same clock value and the rendered state changes
\* nothing: what it queues, applied, leaves counters and streaks as they are.
C7_Idempotent ==
    [][(Render /\ Len(itemQ) = 1)
          => /\ FlushItems(itemQ', items') = items'
             /\ FlushStreaks(streakQ', sectionStreaks') = sectionStreaks']_vars

\* the first check has reset a counter and counted its period: the second
\* check has run on that state
C7_Witness ==
    /\ itemQ = <<>>
    /\ \E p \in Period, i \in 1..Len(items) :
          /\ sectionStreaks[Cur(p)] = 1
          /\ items[i].period = p
          /\ items[i].count = 0
          /\ items[i].periodKey = keyAt(p, now)
          /\ now > BaseDay

\* C8: serialized triggers: two rollover triggers fired back to back leave
\* the streak records and counters that a single trigger leaves: applying
\* everything queued equals applying what the first check queued.
C8_SerializedTriggers ==
    Len(streakQ) >= 2
       => /\ FlushStreaks(streakQ, sectionStreaks)
                = FlushStreaks(<<streakQ[1]>>, sectionStreaks)
          /\ FlushItems(itemQ, items) = FlushItems(<<itemQ[1]>>, items)

\* the counter `id` is about to be reset by a queued rollover check
ResetPending(id) ==
    /\ itemQ # <<>>
    /\ Item(items, id).periodKey # keyAt(Item(items, id).period, now)

\* C9: an increment, decrement or set-count issued while a rollover check's
\* reset of that counter is queued applies to the progress after the reset
\* (0): the counter ends with the new period key and no progress carried
\* over from the ended period.
C9_AdjustAfterReset ==
    [][\A id \in Ids(items) :
          LET it == Item(items, id)
              after == Item(items', id)
          IN /\ (ResetPending(id) /\ increment(id))
                   => /\ after.count = Min(0 + 1, Max(1, it.target))
                      /\ after.periodKey = keyAt(it.period, now)
             /\ (ResetPending(id) /\ decrement(id))
                   => /\ after.count = Max(0, 0 - 1)
                      /\ after.periodKey = keyAt(it.period, now)
             /\ \A v \in NumInputs :
                   (ResetPending(id) /\ SetCount(id, v))
                      => /\ after.count
                               = Min(Max(0, OrElse(v, 0)), Max(1, it.target))
                         /\ after.periodKey = keyAt(it.period, now)]_vars

\* C10: user operations leave the streak records alone: in a step of create,
\* delete, edit (title, kind, target), set target, increment, decrement or
\* set count, the streaks become what the rollover checks queued before made
\* them, and nothing else.
C10_UserOpsKeepStreaks ==
    [][\/ sectionStreaks' = FlushStreaks(streakQ, sectionStreaks)
       \/ ~UserOp]_vars

\* a counter has been incremented while a streak stands
C10_Witness ==
    /\ \E p \in Period : sectionStreaks[Cur(p)] = 1
    /\ \E i \in 1..Len(items) : items[i].count >= 1


\* C11: live preview: for every period the displayed streak is the stored
\* current streak + 1 if the period's group is complete, and the stored
\* current streak otherwise; and when, with no rollover check queued, a
\* decrement takes a member of a complete group below its target, the
\* displayed streak falls by 1 while the stored current streak stays.
C11_LivePreview ==
    [][/\ \A p \in Period :
             /\ streakDisplay(items, sectionStreaks, p)
                   = sectionStreaks[Cur(p)] + (IF Complete(items, p) THEN 1 ELSE 0)
             /\ streakDisplay(items', sectionStreaks', p)
                   = sectionStreaks'[Cur(p)] + (IF Complete(items', p) THEN 1 ELSE 0)
       /\ \A id \in Ids(items) :
             LET p == Item(items, id).period
             IN (Complete(items, p) /\ ~Pending)
                   => \/ /\ streakDisplay(items', sectionStreaks', p)
                               = streakDisplay(items, sectionStreaks, p) - 1
                         /\ sectionStreaks'[Cur(p)] = sectionStreaks[Cur(p)]
                      \/ ~decrement(id)]_vars

\* a complete group is displayed with 2 while its stored streak is 1
C11_Witness ==
    \E p \in Period :
        /\ sectionStreaks[Cur(p)] = 1
        /\ Complete(items, p)
        /\ streakDisplay(items, sectionStreaks, p) = 2
        /\ ~Pending


\* the target is set on counter `it`, which becomes `after`: the target is
\* >= 1, the progress is min(old progress, new target), and a counter that
\* was at its target and got a lower one is still at its target
TargetSet(it, after) ==
    /\ after.target >= 1
    /\ after.count = Min(it.count, after.target)
    /\ (it.count >= it.target /\ after.target <= it.target)
          => after.count >= after.target

\* C12: setTarget never increases progress: after "Set target..." or the
\* edit form, for any number typed, the counter's target is >= 1 and its
\* progress is min(old progress, new target); lowering the target of a
\* counter with progress >= target never makes it incomplete.
C12_SetTargetClamps ==
    [][\A id \in Ids(items) :
          \/ id \in Ids(items') /\ TargetSet(Item(items, id), Item(items', id))
          \/ /\ \A v \in NumInputs : ~SetTarget(id, v)
             /\ \A t \in Titles, p \in Period, v \in NumInputs :
                   ~EditSubmit(id, t, p, v)]_vars

\* a counter filled to the target 1: where a complete counter of target 2 is
\* left when its target is lowered, and one more counter beside it
C12_Witness ==
    /\ Len(items) = 2
    /\ items[1].target = 1 /\ items[1].count = 1
    /\ items[2].target = MaxInput /\ items[2].count = MaxInput


\* a value is stored under the key
Present(raw) == raw.kind # "absent"

\* the record the collection is to be taken from: the current-version record
\* if present, otherwise the v2 record if present, otherwise the v1 record
RecordRead(st) ==
    IF Present(st[LS_KEY]) THEN LS_KEY
    ELSE IF Present(st["mhc:v2"]) THEN "mhc:v2"
    ELSE IF Present(st["mhc:v1"]) THEN "mhc:v1"
    ELSE "none"

\* C13: load and migration: when the page has been opened, the counters are
\* those of the current-version record if present, otherwise of the v2
\* record if present, otherwise of the v1 record, otherwise there are none;
\* migrated counters have target 1, v1 counters streak and bestStreak 0; a
\* record that cannot be parsed gives no counters, and a streak record that
\* cannot be parsed gives zeroed streaks.
C13_LoadAndMigrate ==
    ~mounted =>
        LET k == RecordRead(storage)
        IN /\ k = "none" => items = <<>>
           /\ (k # "none" /\ storage[k].kind # "json") => items = <<>>
           /\ (k # "none" /\ storage[k].kind = "json") =>
                 /\ Len(items) = Len(storage[k].doc)
                 /\ \A i \in 1..Len(items) :
                       /\ items[i].id = storage[k].doc[i].id
                       /\ items[i].period = storage[k].doc[i].period
                       /\ k # LS_KEY => items[i].target = 1
                       /\ k = "mhc:v1" =>
                             items[i].streak = 0 /\ items[i].bestStreak = 0
           /\ (Present(storage[LS_STREAKS_KEY])
                 /\ storage[LS_STREAKS_KEY].kind # "json")
                 => sectionStreaks = ZeroStreaks

\* C14: persistence round trip: for every counter collection and streak
\* record the program reaches, saving them and then loading yields a
\* collection and a streak record equal to them, field for field and in the
\* same order.
C14_RoundTrip ==
    LET st == Persist(storage, items, sectionStreaks)
    IN /\ loadItems(st, zone, now) = items
       /\ loadSectionStreaks(st) = sectionStreaks


\* the Monday-to-Sunday week a day lies in, counted from the week of
\* Thursday 1970-01-01
IsoWeekOf(d) == (d + 3) \div 7

\* C15: weekly key uniqueness: two local days have the same weekly period
\* key if and only if they lie in the same Monday-to-Sunday week, also for
\* weeks that straddle a year boundary and for weeks after a day on which
\* the local clock offset changed.
C15_WeeklyKeyUnique ==
    [][(periodKey(zone, "weekly", now) = periodKey(zone, "weekly", now'))
          <=> (IsoWeekOf(now) = IsoWeekOf(now'))]_vars


\* the counter's stored key is not the key of its period on day d
Stale(it, d) == it.periodKey # keyAt(it.period, d)

\* C16: rollover reset postcondition: when the one queued rollover check has
\* been rendered, every counter's periodKey is the key of its period at the
\* clock value, every counter whose key differed before has progress 0, and
\* if the daily group was complete and crossed a day boundary the daily
\* current streak has grown by 1.
C16_ResetPostcondition ==
    [][(Len(itemQ) = 1 /\ Len(streakQ) = 1)
          => \/ /\ Len(items') = Len(items)
                /\ \A i \in 1..Len(items) :
                      /\ ~Stale(items'[i], now)
                      /\ Stale(items[i], now) => items'[i].count = 0
                /\ (/\ Complete(items, "daily")
                    /\ \E i \in Group(items, "daily") : Stale(items[i], now))
                      => sectionStreaks'.daily = sectionStreaks.daily + 1
             \/ ~Render]_vars

\* a daily counter of target 2 stands reset on a later day, and the day it
\* crossed has been counted
C16_Witness ==
    /\ itemQ = <<>>
    /\ now > BaseDay
    /\ sectionStreaks.daily = 1
    /\ Len(items) = 1
    /\ items[1].period = "daily"
    /\ items[1].target = MaxInput
    /\ items[1].count = 0
    /\ ~Stale(items[1], now)


\* C17: per-kind independence: the current or best streak of a period
\* changes in a step only if a counter of that same period had a periodKey
\* different from the period's key at the clock value; a boundary in one
\* period leaves the streaks of the other periods unchanged.
C17_PerKindIndependence ==
    [][\A p \in Period :
          (\/ sectionStreaks'[Cur(p)] # sectionStreaks[Cur(p)]
           \/ sectionStreaks'[Best(p)] # sectionStreaks[Best(p)])
             => \E i \in Group(items, p) : Stale(items[i], now)]_vars

\* a check is queued for a daily boundary while the weekly group, whose
\* streak stands at 1, has no boundary
C17_Witness ==
    /\ Pending
    /\ \E i \in Group(items, "daily") : Stale(items[i], now)
    /\ Group(items, "weekly") # {}
    /\ \A i \in Group(items, "weekly") : ~Stale(items[i], now)
    /\ sectionStreaks.weekly = 1


\* C18: rollover frame on counters: the render of queued rollover checks
\* adds, removes and reorders no counter and changes no counter's id, title,
\* period or target; a counter whose periodKey is the key of its period at
\* the clock value keeps its progress and key, also when other counters of
\* its period are reset.
C18_RolloverFrame ==
    [][\/ /\ Len(items') = Len(items)
          /\ \A i \in 1..Len(items) :
                /\ items'[i].id = items[i].id
                /\ items'[i].title = items[i].title
                /\ items'[i].period = items[i].period
                /\ items'[i].target = items[i].target
                /\ ~Stale(items[i], now) => items'[i] = items[i]
       \/ ~Render]_vars

\* a check is queued that resets one counter while another counter of the
\* same period has the present key and some progress
C18_Witness ==
    /\ itemQ # <<>>
    /\ \E i, j \in 1..Len(items) :
          /\ items[i].period = items[j].period
          /\ Stale(items[i], now)
          /\ ~Stale(items[j], now)
          /\ items[j].count >= 1


\* the counters before the i-th queued updater is applied
ItemsBefore(i) == FlushItems(SubSeq(itemQ, 1, i - 1), items)

\* C19: snapshot consistency of one rollover check: each queued check took
\* its boundary and completeness decisions from the counters of the last
\* render, and the counters it resets when it is applied are exactly those
\* that were stale in that view.
C19_SnapshotConsistency ==
    \A i \in 1..Len(itemQ) :
        /\ streakQ[i] = StreakUpdater(items, now)
        /\ \A k \in 1..Len(items) :
              (ApplyItemUpdater(itemQ[i], ItemsBefore(i))[k] # ItemsBefore(i)[k])
                 <=> Stale(items[k], now)


\* the counters `after` are the counters `base` with one new counter of
\* period p in front: progress 0, target >= 1, the key of p on day d
Created(base, after, p, d) ==
    /\ Len(after) = Len(base) + 1
    /\ after[1].count = 0
    /\ after[1].target >= 1
    /\ after[1].period = p
    /\ after[1].periodKey = keyAt(p, d)
    /\ after[1].id \notin Ids(base)
    /\ Tail(after) = base

\* C20: create: creating a counter of a period adds exactly one counter with
\* progress 0, target >= 1 and the period's present key, at the front of
\* the collection; the counters that existed (as the rollover checks queued
\* before leave them) keep their fields and their order.
C20_Create ==
    [][\A p \in Period :
          \/ Created(FlushItems(itemQ, items), items', p, now)
          \/ \A t \in Titles, v \in NumInputs : ~NewItemSubmit(t, p, v)]_vars

\* a counter of target 2 without progress stands in front of a counter that
\* has progress
C20_Witness ==
    /\ Len(items) = 2
    /\ items[1].count = 0
    /\ items[1].target = MaxInput
    /\ ~Stale(items[1], now)
    /\ items[2].count >= 1


\* the edit form was submitted for counter `it`, which becomes `after`: a
\* changed period has its key at day d, an unchanged period keeps the stored
\* key, and the progress stays, clamped to the target of the edit
PeriodSet(it, after, d) ==
    /\ after.periodKey
          = (IF after.period # it.period THEN keyAt(after.period, d) ELSE it.periodKey)
    /\ after.count = Min(it.count, after.target)

\* C21: set period kind: an edit that changes a counter's period sets its
\* periodKey to the new period's key at the clock value and leaves its
\* progress unchanged, apart from the clamp to the target of the same edit;
\* an edit that keeps the period keeps the periodKey, stale or not.
C21_SetPeriodKind ==
    [][\A id \in Ids(items) :
          \/ id \in Ids(items') /\ PeriodSet(Item(items, id), Item(items', id), now)
          \/ \A t \in Titles, p \in Period, v \in NumInputs :
                ~EditSubmit(id, t, p, v)]_vars

\* a counter that holds progress was moved from the daily to the weekly
\* period after its day had ended and been counted: it has the present
\* weekly key and its progress
C21_Witness ==
    /\ now > BaseDay
    /\ sectionStreaks.daily = 1
    /\ Len(items) = 1
    /\ items[1].period = "weekly"
    /\ items[1].count = MaxInput
    /\ ~Stale(items[1], now)



\* every counter of period p has the key of p on day d
AllCurrent(its, p, d) == \A i \in Group(its, p) : ~Stale(its[i], d)

\* the queued rollover checks, applied, change neither the streaks of period
\* p nor a counter of p
QueuedQuiet(p) ==
    /\ FlushStreaks(streakQ, sectionStreaks)[Cur(p)] = sectionStreaks[Cur(p)]
    /\ FlushStreaks(streakQ, sectionStreaks)[Best(p)] = sectionStreaks[Best(p)]
    /\ \A i \in Group(items, p) : FlushItems(itemQ, items)[i] = items[i]

\* C22: a counter added mid-period triggers no boundary: while every counter
\* of a period has the present key and the clock stays within that key, a
\* step, the creation of a counter of that period included, leaves every
\* counter of the period with the present key and the period's streaks
\* unchanged, and the rollover checks queued change nothing for the period;
\* the created counter is a member of the group.
C22_AddedMidPeriod ==
    [][\A p \in Period :
          (AllCurrent(items, p, now) /\ keyAt(p, now') = keyAt(p, now))
             => /\ AllCurrent(items', p, now')
                /\ sectionStreaks'[Cur(p)] = sectionStreaks[Cur(p)]
                /\ sectionStreaks'[Best(p)] = sectionStreaks[Best(p)]
                /\ QueuedQuiet(p)'
                /\ \/ Group(items', p) # {}
                   \/ \A t \in Titles, v \in NumInputs : ~NewItemSubmit(t, p, v)]_vars

\* a daily counter was added beside one that holds progress, on a day after
\* a counted day, and the check that followed has left both as they were
C22_Witness ==
    /\ mounted
    /\ itemQ = <<>> /\ streakQ = <<>>
    /\ now > BaseDay
    /\ sectionStreaks.daily = 1
    /\ Len(items) = 2
    /\ items[1].period = "daily" /\ items[2].period = "daily"
    /\ items[1].count = 0 /\ items[2].count >= 1
    /\ AllCurrent(items, "daily", now)



\* the counter `id` has been reset: it has the key of its period at the clock
\* value and no progress
WasReset(id) ==
    /\ id \in Ids(items)
    /\ ~Stale(Item(items, id), now)
    /\ Item(items, id).count = 0

\* the render of what is queued lies beyond the streaks explored
BeyondStreakBound == ~WithinStreakBound(FlushStreaks(streakQ, sectionStreaks))

C24_LoadedInvariant ==
    ~mounted =>
        \A i \in 1..Len(items) :
            /\ items[i].target >= 1
            /\ 0 <= items[i].count
            /\ items[i].count <= items[i].target


\* what a queued streak updater holds for period p
BoundaryOf(u, p) ==
    CASE p = "daily" -> u.boundaryDaily
      [] p = "weekly" -> u.boundaryWeekly
      [] p = "monthly" -> u.boundaryMonthly

EndedDoneOf(u, p) ==
    CASE p = "daily" -> u.endedDailyDone
      [] p = "weekly" -> u.endedWeeklyDone
      [] p = "monthly" -> u.endedMonthlyDone

\* C25: completeness at a boundary is taken over the period's whole
\* membership at check time: every queued rollover check holds, for each
\* period with a stale counter, whether all counters of the period that
\* exist, those with the present key included and deleted ones excluded, are
\* at their targets; so a fresh counter without progress makes the ended
\* period incomplete, and a group whose incomplete counters were all deleted
\* is complete.
C25_WholeMembership ==
    \A k \in 1..Len(streakQ), p \in Period :
        /\ BoundaryOf(streakQ[k], p) = (\E i \in Group(items, p) : Stale(items[i], now))
        /\ EndedDoneOf(streakQ[k], p) = (BoundaryOf(streakQ[k], p) /\ Complete(items, p))

\* a check is queued for a period in which a counter at its target crossed
\* the boundary and a counter made after the boundary has no progress: the
\* check took the period as incomplete
C25_Witness ==
    \E p \in Period, i, j \in 1..Len(items) :
        /\ Len(streakQ) >= 1
        /\ items[i].period = p /\ items[j].period = p
        /\ Stale(items[i], now) /\ items[i].count >= items[i].target
        /\ ~Stale(items[j], now) /\ items[j].count = 0
        /\ BoundaryOf(streakQ[1], p) /\ ~EndedDoneOf(streakQ[1], p)



\* the counter as a rollover check on day d leaves it: reset if its key is
\* not the key of its period on day d
ResetOf(it, d) ==
    IF Stale(it, d)
    THEN [it EXCEPT !.periodKey = keyAt(it.period, d), !.count = 0]
    ELSE it

\* C26: boundary detection depends on the inequality of keys only, not on
\* their order: on a host whose clock moves in both directions, every
\* rollover check signals a boundary for exactly the periods that have a
\* counter whose stored key is not the present key; a render that changes
\* the counters is followed by such a check; and the render of one queued
\* check counts a complete period, breaks the streak of an incomplete one
\* and resets the counters whose key differs.
C26_InequalityOnly ==
    [][/\ \A k \in 1..Len(streakQ), p \in Period :
             BoundaryOf(streakQ[k], p) = (\E i \in Group(items, p) : Stale(items[i], now))
       /\ (items' # items)
             => \A p \in Period :
                   (\E i \in Group(items', p) : Stale(items'[i], now'))
                      = (streakQ' # <<>> /\ BoundaryOf(streakQ'[1], p))
       /\ (Len(itemQ) = 1 /\ Len(streakQ) = 1)
             => \/ /\ \A p \in Period :
                         (\E i \in Group(items, p) : Stale(items[i], now))
                            => sectionStreaks'[Cur(p)]
                                  = (IF Complete(items, p)
                                     THEN sectionStreaks[Cur(p)] + 1 ELSE 0)
                   /\ items' = [i \in 1..Len(items) |-> ResetOf(items[i], now)]
                \/ ~Render]_vars

\* a daily counter made and filled on a later day was found on the first
\* day, to which the clock had been set back: the check counted its period
\* and reset it to the earlier day's key
C26_Witness ==
    /\ now = BaseDay
    /\ itemQ = <<>>
    /\ sectionStreaks.daily = 1
    /\ Len(items) = 1
    /\ items[1].period = "daily"
    /\ items[1].count = 0
    /\ items[1].target = MaxInput
    /\ ~Stale(items[1], now)



\* C27: the best streak is monotone: from zeroed streak records, no step of
\* a user operation, a rollover check or a render lowers the best streak of
\* a period.
C27_BestMonotone ==
    [][\A p \in Period : sectionStreaks'[Best(p)] >= sectionStreaks[Best(p)]]_vars

\* a period's streak was broken on a later day than the one that raised it:
\* the best streak stands while the current one is 0 and the counter has
\* been reset
C27_Witness ==
    \E p \in Period, i \in 1..Len(items) :
        /\ now = BaseDay + MaxDay
        /\ itemQ = <<>>
        /\ sectionStreaks[Best(p)] = 1
        /\ sectionStreaks[Cur(p)] = 0
        /\ items[i].period = p
        /\ items[i].count = 0
        /\ ~Stale(items[i], now)



====
